---- MODULE Spec2Model ----
(***************************************************************************)
(* A model of src/src/census.py: the Census data-catalog client            *)
(* (CensusAPICatalog) and the per-dataset detail client                    *)
(* (CensusDatasetSource).  The HTTP collaborator (requests.get) is the     *)
(* environment: every GET draws its response from a small set.             *)
(*                                                                         *)
(* Four specifications share the variables:                                *)
(*   SpecCatalog  construction of the catalog client;                      *)
(*   SpecLookup   get_dataset_source on a built catalog;                   *)
(*   SpecCounts   get_counts_of_nested_data_elements on a built catalog;   *)
(*   SpecSource   the detail fetches and table builders of one             *)
(*                CensusDatasetSource.                                     *)
(***************************************************************************)
EXTENDS Integers, Sequences, FiniteSets, TLC

VARIABLES
    data_catalog_json,  \* CensusAPICatalog.data_catalog_json (or unset)
    dataset_metadata,   \* CensusAPICatalog.dataset_metadata (or unset)
    phase,              \* "start" | "constructed" | "failed": the catalog client
    ran,                \* the methods of the catalog client that were entered
    raised,             \* the exception the last call left propagating
    returned,           \* the value the last call returned
    call,               \* the last call and its arguments
    http,               \* the last GET issued and the response it received
    source,             \* the fields of the CensusDatasetSource object
    ctor,               \* the arguments its constructor was given
    n_calls,            \* calls made on the object so far
    n_requests,         \* GETs issued so far
    n_failed,           \* detail fetches so far that were answered non-200
    n_repeat            \* calls just before the last one that were the same call

vars == << data_catalog_json, dataset_metadata, phase, ran, raised, returned,
           call, http, source, ctor, n_calls, n_requests, n_failed, n_repeat >>

(***************************************************************************)
(* Bounds of the model.                                                    *)
(***************************************************************************)
MaxDatasets == 3       \* elements of the catalog's "dataset" array
MaxLabels == 2         \* labels in one dataset's list under a key
MaxEntries == 2        \* entries of a detail document (variables, fips, groups)
MaxCountDatasets == 2  \* datasets in the catalogs get_counts is run on
MaxCalls == 3          \* calls on one object in one behaviour
MaxLookupDatasets == 2 \* datasets in the catalogs get_dataset_source is run on

(***************************************************************************)
(* Sequence helpers.                                                       *)
(***************************************************************************)
SeqsUpTo(S, n) == UNION { [1..k -> S] : k \in 0..n }

Reverse(s) == [i \in 1..Len(s) |-> s[Len(s) + 1 - i]]

\* The positions at which a boolean mask is true, ascending.
SelectIdx(mask) ==
    LET F[k \in 0..Len(mask)] ==
            IF k = 0 THEN << >>
            ELSE IF mask[k] THEN Append(F[k - 1], k) ELSE F[k - 1]
    IN  F[Len(mask)]

(***************************************************************************)
(* Values: exceptions, return values.  Every value is a record, so that    *)
(* any two of them can be compared.                                        *)
(***************************************************************************)
NoError == [type |-> "none", message |-> "", status_code |-> 0]

Error(type, message) == [type |-> type, message |-> message, status_code |-> 0]

StatusError(message, code) ==
    [type |-> "Exception", message |-> message, status_code |-> code]

None == [kind |-> "None"]

Unset == [set |-> FALSE]

StatusCodes == {200, 404, 500}

(***************************************************************************)
(* The catalog document (data.json) as the catalog endpoint serves it.     *)
(* A dataset element may lack "modified", or carry one that is no date;    *)
(* it carries the other columns of col_order and a "distribution" list     *)
(* with at least one record.                                               *)
(***************************************************************************)
Identifiers == {"ACSDT5Y2020", "DECENNIALPL2020"}

AccessURLs == {"api.census.gov/data/2020/acs/acs5", "api.census.gov/data/2020/dec/pl"}

Missing == "<missing>"

RawModified == {"2019-06-01 00:00:00.0", "2021-03-15 00:00:00.0", "sometime"}

Distributions ==
    { << [accessURL |-> "api.census.gov/data/2020/acs/acs5"] >>,
      << [accessURL |-> "api.census.gov/data/2020/dec/pl"],
         [accessURL |-> "api.census.gov/data/2020/acs/acs5"] >> }

DatasetElements ==
    [identifier : Identifiers,
     modified : RawModified \cup {Missing},
     distribution : Distributions,
     keyword : {<< >>},
     bureauCode : {<< "006:07" >>}]

CatalogDocuments ==
    { [has_dataset |-> FALSE, dataset |-> << >>] } \cup
    { [has_dataset |-> TRUE, dataset |-> ds] : ds \in SeqsUpTo(DatasetElements, MaxDatasets) }

CatalogResponses ==
    { [status_code |-> 200, json |-> doc] : doc \in CatalogDocuments } \cup
    { [status_code |-> c, json |-> [has_dataset |-> FALSE, dataset |-> << >>]] :
        c \in StatusCodes \ {200} }

(***************************************************************************)
(* CensusAPICatalog.set_data_catalog_json                                  *)
(***************************************************************************)
set_data_catalog_json_no_raise(resp) ==
    [raised |-> NoError, data_catalog_json |-> [set |-> TRUE, json |-> resp.json]]

set_data_catalog_json(resp) ==
    IF resp.status_code = 200
    THEN [raised |-> NoError,
          data_catalog_json |-> [set |-> TRUE, json |-> resp.json]]
    ELSE [raised |-> StatusError("Failed to get a valid response; status_code", resp.status_code),
          data_catalog_json |-> Unset]

(***************************************************************************)
(* pd.to_datetime on the "modified" column (errors="raise", the default):  *)
(* a date string becomes a timestamp (here its ordinal) and a missing      *)
(* value becomes NaT; any other string makes the conversion of the column  *)
(* raise, so to_datetime is defined on the first two only.                 *)
(***************************************************************************)
NaT == [isna |-> TRUE, value |-> 0]

Parseable(raw) == raw \in {"2019-06-01 00:00:00.0", "2021-03-15 00:00:00.0"}

to_datetime(raw) ==
    CASE raw = "2019-06-01 00:00:00.0" -> [isna |-> FALSE, value |-> 20190601]
      [] raw = "2021-03-15 00:00:00.0" -> [isna |-> FALSE, value |-> 20210315]
      [] raw = Missing -> NaT

(***************************************************************************)
(* pd.json_normalize(dataset), the merge with the flattened first          *)
(* distribution record, and the renaming: the row of one dataset element.  *)
(***************************************************************************)
json_normalize(dataset) ==
    [identifier |-> dataset.identifier,
     modified |-> to_datetime(dataset.modified),
     distribution_accessURL |-> dataset.distribution[1].accessURL]

(***************************************************************************)
(* DataFrame.sort_values(by="modified", ascending=False,                   *)
(* ignore_index=True): kind defaults to "quicksort" and na_position to     *)
(* "last".  The rows with NaT are put last in their input order            *)
(* (np.nonzero(mask)); the others are ordered by numpy's quicksort, which  *)
(* is not a stable sort (an introsort, stable only while it falls back to  *)
(* insertion sort, on 16 elements or fewer), so the order among equal keys *)
(* is any order.  The result is the set of index orders the sort may       *)
(* produce on a catalog of any size.                                       *)
(***************************************************************************)
Orders(S) ==
    { p \in [1..Cardinality(S) -> S] : \A i, j \in DOMAIN p : i # j => p[i] # p[j] }

nargsort_ascending(keys) ==
    LET n == Len(keys)
        nan_idx == SelectIdx([i \in 1..n |-> keys[i].isna])
        non_nan == {i \in 1..n : ~keys[i].isna}
    IN  { p \o nan_idx :
            p \in { q \in Orders(non_nan) :
                      \A i, j \in DOMAIN q : i < j => keys[q[i]].value <= keys[q[j]].value } }

nargsort(keys) ==
    LET n == Len(keys)
        nan_idx == SelectIdx([i \in 1..n |-> keys[i].isna])
        non_nan == {i \in 1..n : ~keys[i].isna}
    IN  { p \o nan_idx :
            p \in { q \in Orders(non_nan) :
                      \A i, j \in DOMAIN q : i < j => keys[q[i]].value >= keys[q[j]].value } }

sort_values(rows) ==
    { [i \in DOMAIN rows |-> rows[p[i]]] :
        p \in nargsort([i \in DOMAIN rows |-> rows[i].modified]) }

(***************************************************************************)
(* CensusAPICatalog.set_dataset_metadata: the outcomes it may end with,    *)
(* each the exception raised and the value of self.dataset_metadata.       *)
(***************************************************************************)
ShapeError == Error("Exception", "field 'dataset' not found in data_catalog response")

build_dataset_table(datasets) ==
         IF Len(datasets) = 0
         THEN \* pd.concat([]) raises
              { [raised |-> Error("ValueError", "No objects to concatenate"),
                 dataset_metadata |-> Unset] }
         ELSE IF \A i \in DOMAIN datasets : datasets[i].modified = Missing
         THEN \* no element carries "modified": the column does not exist
              { [raised |-> Error("KeyError", "modified"), dataset_metadata |-> Unset] }
         ELSE IF \E i \in DOMAIN datasets :
                    datasets[i].modified # Missing /\ ~Parseable(datasets[i].modified)
         THEN \* pd.to_datetime raises on a string that is no date
              { [raised |-> Error("ValueError", "Unknown string format"),
                 dataset_metadata |-> Unset] }
         ELSE { [raised |-> NoError, dataset_metadata |-> [set |-> TRUE, rows |-> t]] :
                  t \in sort_values([i \in DOMAIN datasets |-> json_normalize(datasets[i])]) }

set_dataset_metadata_no_check(json) == build_dataset_table(json.dataset)

set_dataset_metadata(json) ==
    IF json.has_dataset
    THEN build_dataset_table(json.dataset)
    ELSE { [raised |-> ShapeError, dataset_metadata |-> Unset] }

(***************************************************************************)
(* CensusAPICatalog.__init__: the catalog GET, then the dataset table.     *)
(***************************************************************************)
CensusAPICatalog_init ==
    /\ phase = "start"
    /\ \E resp \in CatalogResponses :
         LET fetched == set_data_catalog_json(resp) IN
         /\ http' = [kind |-> "catalog", status_code |-> resp.status_code]
         /\ n_requests' = n_requests + 1
         /\ data_catalog_json' = fetched.data_catalog_json
         /\ IF fetched.raised # NoError
            THEN /\ raised' = fetched.raised
                 /\ dataset_metadata' = Unset
                 /\ ran' = {"set_data_catalog_json"}
                 /\ phase' = "failed"
            ELSE \E built \in set_dataset_metadata(fetched.data_catalog_json.json) :
                 /\ raised' = built.raised
                 /\ dataset_metadata' = built.dataset_metadata
                 /\ ran' = {"set_data_catalog_json", "set_dataset_metadata"}
                 /\ phase' = IF built.raised = NoError THEN "constructed" ELSE "failed"
    /\ call' = [op |-> "CensusAPICatalog"]
    /\ returned' = None
    /\ UNCHANGED << source, ctor, n_calls, n_failed, n_repeat >>

(***************************************************************************)
(* CensusAPICatalog.get_dataset_source: the rows of the table whose        *)
(* identifier matches, in table order, and .values[0] of their access      *)
(* URLs (an IndexError when there is none).                                *)
(***************************************************************************)
RequestedIdentifiers == Identifiers \cup {"CBP2019"}

MediaTypes == {"json", "html"}

loc_values(rows, identifier) ==
    LET idx == SelectIdx([i \in DOMAIN rows |-> rows[i].identifier = identifier])
    IN  [k \in DOMAIN idx |-> rows[idx[k]].distribution_accessURL]

CensusDatasetSource(base_api_call, media_type) ==
    [kind |-> "CensusDatasetSource", base_api_call |-> base_api_call, media_type |-> media_type]

get_dataset_source_last(rows, identifier, media_type) ==
    LET values == loc_values(rows, identifier) IN
    IF Len(values) = 0
    THEN [raised |-> Error("IndexError", "index 0 is out of bounds"), returned |-> None]
    ELSE [raised |-> NoError, returned |-> CensusDatasetSource(values[Len(values)], media_type)]

get_dataset_source(rows, identifier, media_type) ==
    LET values == loc_values(rows, identifier) IN
    IF Len(values) = 0
    THEN [raised |-> Error("IndexError", "index 0 is out of bounds"), returned |-> None]
    ELSE [raised |-> NoError, returned |-> CensusDatasetSource(values[1], media_type)]

GetDatasetSource ==
    /\ phase = "constructed"
    /\ \E identifier \in RequestedIdentifiers, media_type \in MediaTypes :
         LET out == get_dataset_source(dataset_metadata.rows, identifier, media_type) IN
         /\ call' = [op |-> "get_dataset_source", identifier |-> identifier,
                     media_type |-> media_type]
         /\ raised' = out.raised
         /\ returned' = out.returned
    /\ UNCHANGED << data_catalog_json, dataset_metadata, phase, ran, http, source, ctor,
                    n_calls, n_requests, n_failed, n_repeat >>

NoSource == [base_api_call |-> "", media_type |-> ""]

NoHttp == [kind |-> "none", status_code |-> 0]

InitCatalog ==
    /\ data_catalog_json = Unset
    /\ dataset_metadata = Unset
    /\ phase = "start"
    /\ ran = {}
    /\ raised = NoError
    /\ returned = None
    /\ call = [op |-> "none"]
    /\ http = NoHttp
    /\ source = NoSource
    /\ ctor = NoSource
    /\ n_calls = 0
    /\ n_requests = 0
    /\ n_failed = 0
    /\ n_repeat = 0

NextCatalog == CensusAPICatalog_init

SpecCatalog == InitCatalog /\ [][NextCatalog]_vars

\* The state after CensusAPICatalog() succeeded on a catalog document.
Constructed(doc) ==
    /\ data_catalog_json = set_data_catalog_json([status_code |-> 200, json |-> doc]).data_catalog_json
    /\ \E built \in set_dataset_metadata(doc) :
         /\ built.raised = NoError
         /\ dataset_metadata = built.dataset_metadata
    /\ phase = "constructed"
    /\ ran = {"set_data_catalog_json", "set_dataset_metadata"}
    /\ raised = NoError
    /\ returned = None
    /\ call = [op |-> "CensusAPICatalog"]
    /\ http = [kind |-> "catalog", status_code |-> 200]
    /\ source = NoSource
    /\ ctor = NoSource
    /\ n_calls = 0
    /\ n_requests = 1
    /\ n_failed = 0
    /\ n_repeat = 0

LookupDocuments ==
    { [has_dataset |-> TRUE, dataset |-> ds] :
        ds \in SeqsUpTo(DatasetElements, MaxLookupDatasets) }

InitLookup == \E doc \in LookupDocuments : Constructed(doc)

NextLookup == GetDatasetSource

SpecLookup == InitLookup /\ [][NextLookup]_vars

(***************************************************************************)
(* CensusDatasetSource: __init__, get_detail_url and the URL properties.   *)
(* A URL f"{base}/{detail}.{ext}" is kept as its three parts.              *)
(***************************************************************************)
DetailTypes == {"variables", "examples", "sorts", "geography", "tags", "groups"}

CensusDatasetSource_init(base_api_call, media_type) ==
    [base_api_call |-> base_api_call, media_type |-> media_type]

get_detail_url(self, detail_type) ==
    [base |-> self.base_api_call, detail |-> detail_type, ext |-> self.media_type]

variables_url(self) == get_detail_url(self, "variables")

geographies_url(self) == get_detail_url(self, "geography")

groups_url(self) == get_detail_url(self, "groups")

\* re.sub("\.html$", ".json", url)
re_sub_html(url) == IF url.ext = "html" THEN [url EXCEPT !.ext = "json"] ELSE url

(***************************************************************************)
(* What a detail endpoint may answer.                                      *)
(***************************************************************************)
\* The "variables" mapping of a variables document, as the entries of the
\* JSON object in the order it lists them: each name at most once.  A
\* record may or may not carry "predicateOnly" (true when present) and
\* "values".
VariableNames == << "NAME", "P1_001N" >>

VariableRecords ==
    [has_predicateOnly : BOOLEAN, has_values : BOOLEAN]

VariablesMappings ==
    UNION { { [k \in DOMAIN names |-> [variable |-> names[k], record |-> records[k]]] :
                records \in [DOMAIN names -> VariableRecords] } :
            names \in { << >>, << VariableNames[1] >>, << VariableNames[2] >>, VariableNames } }

DetailDocuments(detail) ==
    CASE detail = "variables" ->
           { [variables |-> m] : m \in VariablesMappings }
      [] detail = "geography" ->
           { [fips |-> f] : f \in SeqsUpTo({"us"}, MaxEntries) }
      [] detail = "groups" ->
           { [groups |-> g] : g \in SeqsUpTo({"B01001"}, MaxEntries) }
      [] OTHER -> { [detail |-> detail] }

DetailResponses(api_call) ==
    { [status_code |-> 200, json |-> doc] : doc \in DetailDocuments(api_call.detail) } \cup
    { [status_code |-> c, json |-> None] : c \in StatusCodes \ {200} }

(***************************************************************************)
(* requests.get(api_call): the GET is issued and its response received.    *)
(***************************************************************************)
requests_get_cached(api_call, resp) ==
    IF http.kind = "detail" /\ http.url = api_call
    THEN UNCHANGED << http, n_requests, n_failed >>
    ELSE /\ http' = [kind |-> "detail", url |-> api_call,
                      status_code |-> resp.status_code, json |-> resp.json]
         /\ n_requests' = n_requests + 1
         /\ n_failed' = IF resp.status_code = 200 THEN n_failed ELSE n_failed + 1

requests_get(api_call, resp) ==
    /\ http' = [kind |-> "detail", url |-> api_call,
                 status_code |-> resp.status_code, json |-> resp.json]
    /\ n_requests' = n_requests + 1
    /\ n_failed' = IF resp.status_code = 200 THEN n_failed ELSE n_failed + 1

(***************************************************************************)
(* CensusDatasetSource.get_url_response, on the response received.         *)
(***************************************************************************)
get_url_response_raising(resp) ==
    IF resp.status_code = 200
    THEN [raised |-> NoError, returned |-> resp.json]
    ELSE [raised |-> StatusError("Failed to get a valid response; status code", resp.status_code),
          returned |-> None]

get_url_response(resp) ==
    IF resp.status_code = 200
    THEN [raised |-> NoError, returned |-> resp.json]
    ELSE [raised |-> NoError, returned |-> None]   \* prints the status code

(***************************************************************************)
(* The table builders, on what get_url_response returned.                  *)
(***************************************************************************)
NoneNotSubscriptable == Error("TypeError", "'NoneType' object is not subscriptable")

DataFrame(rows) == [kind |-> "DataFrame", rows |-> rows]

NaN == [isna |-> TRUE, v |-> {}]

\* The codes of a variable's "values" mapping, when its record carries one.
ValueCodes == {"1", "2"}

\* pd.DataFrame(variables).T and reset_index: a row per variable name, a
\* column per key some record carries, NaN where a record lacks the key.
\* fillna(False) fills the missing predicateOnly; fillna({}) is given an
\* empty mapping of index labels to fill values, and fills nothing.
variables_row(entry) ==
    [variable |-> entry.variable,
     predicateOnly |-> IF entry.record.has_predicateOnly THEN TRUE ELSE FALSE,
     values |-> IF entry.record.has_values
                THEN [isna |-> FALSE, v |-> ValueCodes]
                ELSE NaN]

variables_df(resp_json) ==
    IF resp_json = None
    THEN [raised |-> NoneNotSubscriptable, returned |-> None]
    ELSE LET m == resp_json.variables IN
         IF \A i \in DOMAIN m : ~m[i].record.has_predicateOnly
         THEN [raised |-> Error("KeyError", "predicateOnly"), returned |-> None]
         ELSE IF \A i \in DOMAIN m : ~m[i].record.has_values
         THEN [raised |-> Error("KeyError", "values"), returned |-> None]
         ELSE [raised |-> NoError,
               returned |-> DataFrame([i \in DOMAIN m |-> variables_row(m[i])])]

geographies_df(resp_json) ==
    IF resp_json = None
    THEN [raised |-> NoneNotSubscriptable, returned |-> None]
    ELSE [raised |-> NoError, returned |-> DataFrame(resp_json.fips)]

groups_df(resp_json) ==
    IF resp_json = None
    THEN [raised |-> NoneNotSubscriptable, returned |-> None]
    ELSE LET groups_df_local == DataFrame(resp_json.groups)
         IN  [raised |-> NoError, returned |-> None]   \* bare return

(***************************************************************************)
(* The calls on a CensusDatasetSource.                                     *)
(***************************************************************************)
TableBuilds == {"variables_df", "geographies_df", "groups_df"}

DetailUrl ==
    /\ \E detail_type \in DetailTypes :
         /\ call' = [op |-> "get_detail_url", detail_type |-> detail_type]
         /\ returned' = get_detail_url(source, detail_type)
    /\ raised' = NoError
    /\ UNCHANGED << data_catalog_json, dataset_metadata, phase, ran, http, source, ctor,
                    n_calls, n_requests, n_failed, n_repeat >>

GetUrlResponse ==
    /\ n_calls < MaxCalls
    /\ \E detail_type \in DetailTypes :
         LET url == get_detail_url(source, detail_type)
             api_call == re_sub_html(url)
         IN  \E resp \in DetailResponses(api_call) :
               /\ requests_get(api_call, resp)
               /\ call' = [op |-> "get_url_response", url |-> url]
               /\ n_repeat' = IF call.op = "get_url_response" /\ call.url = url
                               THEN n_repeat + 1 ELSE 0
               /\ \E out \in { get_url_response(resp) } :
                     raised' = out.raised /\ returned' = out.returned
    /\ n_calls' = n_calls + 1
    /\ UNCHANGED << data_catalog_json, dataset_metadata, phase, ran, source, ctor >>

\* The table a property builds from what get_url_response returned.
build_table(op, resp_json) ==
    CASE op = "variables_df" -> variables_df(resp_json)
      [] op = "geographies_df" -> geographies_df(resp_json)
      [] op = "groups_df" -> groups_df(resp_json)

Build(op, url) ==
    /\ n_calls < MaxCalls
    /\ LET api_call == re_sub_html(url) IN
       \E resp \in DetailResponses(api_call) :
         /\ requests_get(api_call, resp)
         /\ call' = [op |-> op, url |-> url]
         /\ n_repeat' = IF call.op = op /\ call.url = url THEN n_repeat + 1 ELSE 0
         /\ \E fetched \in { get_url_response(resp) } :
              IF fetched.raised # NoError
              THEN raised' = fetched.raised /\ returned' = None
              ELSE \E out \in { build_table(op, fetched.returned) } :
                     raised' = out.raised /\ returned' = out.returned
    /\ n_calls' = n_calls + 1
    /\ UNCHANGED << data_catalog_json, dataset_metadata, phase, ran, source, ctor >>

VariablesDf == Build("variables_df", variables_url(source))

GeographiesDf == Build("geographies_df", geographies_url(source))

GroupsDf == Build("groups_df", groups_url(source))

InitSource ==
    /\ data_catalog_json = Unset
    /\ dataset_metadata = Unset
    /\ phase = "start"
    /\ ran = {}
    /\ raised = NoError
    /\ returned = None
    /\ call = [op |-> "CensusDatasetSource"]
    /\ http = NoHttp
    /\ ctor \in [base_api_call : AccessURLs, media_type : MediaTypes]
    /\ source = CensusDatasetSource_init(ctor.base_api_call, ctor.media_type)
    /\ n_calls = 0
    /\ n_requests = 0
    /\ n_failed = 0
    /\ n_repeat = 0

NextSource == DetailUrl \/ GetUrlResponse \/ VariablesDf \/ GeographiesDf \/ GroupsDf

SpecSource == InitSource /\ [][NextSource]_vars

(***************************************************************************)
(* CensusAPICatalog.get_counts_of_nested_data_elements.                    *)
(***************************************************************************)
Labels == {"census", "population", "housing"}

NestedKeys == {"keyword", "bureauCode"}

\* itertools.chain.from_iterable: the lists one after the other
chain_from_iterable(lists) ==
    LET F[k \in 0..Len(lists)] == IF k = 0 THEN << >> ELSE F[k - 1] \o lists[k]
    IN  F[Len(lists)]

\* collections.Counter(iterable).items(): a dict keeps its keys in the order
\* of their first insertion
Counter(seq) ==
    LET F[k \in 0..Len(seq)] ==
            IF k = 0 THEN << >>
            ELSE LET prev == F[k - 1]
                     x == seq[k]
                 IN  IF \E i \in DOMAIN prev : prev[i].label = x
                     THEN [i \in DOMAIN prev |->
                             IF prev[i].label = x
                             THEN [prev[i] EXCEPT !.count = @ + 1]
                             ELSE prev[i]]
                     ELSE Append(prev, [label |-> x, count |-> 1])
    IN  F[Len(seq)]

\* list.sort on the key x[1]: a stable ascending sort (here by insertion
\* after the items whose key is not greater)
list_sort(items) ==
    LET Insert(sorted, x) ==
            LET pos == Cardinality({i \in DOMAIN sorted : sorted[i].count <= x.count})
            IN  SubSeq(sorted, 1, pos) \o << x >> \o SubSeq(sorted, pos + 1, Len(sorted))
        F[k \in 0..Len(items)] == IF k = 0 THEN << >> ELSE Insert(F[k - 1], items[k])
    IN  F[Len(items)]

sorted_then_reversed(items) == Reverse(list_sort(items))

\* sorted(items, key=lambda x: x[1], reverse=True): CPython reverses the
\* list, sorts it stably and reverses the result, which keeps the items of
\* equal key in their original order
sorted_reverse(items) == Reverse(list_sort(Reverse(items)))

get_counts_of_nested_data_elements(json, key) ==
    LET datasets == json.dataset
        labels == [i \in DOMAIN datasets |-> datasets[i][key]]
    IN  \* label_counts is bound to its value, computed once
        CHOOSE sorted \in { sorted_reverse(label_counts) :
                              label_counts \in { Counter(chain_from_iterable(labels)) } } : TRUE

GetCounts ==
    /\ phase = "constructed"
    /\ \E key \in NestedKeys :
         /\ call' = [op |-> "get_counts_of_nested_data_elements", key |-> key]
         /\ returned' = [kind |-> "list",
                         items |-> get_counts_of_nested_data_elements(data_catalog_json.json, key)]
    /\ raised' = NoError
    /\ UNCHANGED << data_catalog_json, dataset_metadata, phase, ran, http, source, ctor,
                    n_calls, n_requests, n_failed, n_repeat >>

\* The catalogs the counts are taken on: datasets that differ in their
\* keyword lists only.
CountElements ==
    [identifier : {"ACSDT5Y2020"},
     modified : {"2021-03-15 00:00:00.0"},
     distribution : { << [accessURL |-> "api.census.gov/data/2020/acs/acs5"] >> },
     keyword : SeqsUpTo(Labels, MaxLabels),
     bureauCode : {<< "006:07" >>}]

CountDocuments ==
    { [has_dataset |-> TRUE, dataset |-> ds] :
        ds \in SeqsUpTo(CountElements, MaxCountDatasets) \ {<< >>} }

InitCounts == \E doc \in CountDocuments : Constructed(doc)

NextCounts == GetCounts

SpecCounts == InitCounts /\ [][NextCounts]_vars

(***************************************************************************)
(* The claims.                                                             *)
(***************************************************************************)

\* C1: when the catalog GET is answered with a status other than 200,
\* constructing the catalog client fails with an error that carries that
\* status code, set_dataset_metadata is never run, and neither
\* data_catalog_json nor dataset_metadata is set.
C1_CatalogFetchFailureAborts ==
    (phase # "start" /\ http.kind = "catalog" /\ http.status_code # 200) =>
        /\ phase = "failed"
        /\ raised.type = "Exception"
        /\ raised.status_code = http.status_code
        /\ "set_dataset_metadata" \notin ran
        /\ data_catalog_json = Unset
        /\ dataset_metadata = Unset

C1_Witness ==
    /\ phase = "failed"
    /\ http.status_code = 500
    /\ raised.status_code = 500
    /\ ran = {"set_data_catalog_json"}

\* C2: get_url_response never raises; on a status other than 200 it returns
\* None, and on 200 it returns the parsed JSON, however many earlier fetches
\* on the same source failed.
C2_DetailFetchBestEffort ==
    call.op = "get_url_response" =>
        /\ raised = NoError
        /\ http.status_code # 200 => returned = None
        /\ http.status_code = 200 => (returned = http.json /\ returned # None)

C2_Witness ==
    /\ call.op = "get_url_response"
    /\ http.status_code = 200
    /\ n_failed >= 2
    /\ returned = http.json

\* C3 (as claimed): a table build whose endpoint answers non-200 does not
\* raise, and a build that is answered 200 after an earlier failure on the
\* source yields its table.
C3_DetailFailuresIsolated ==
    /\ (call.op \in TableBuilds /\ http.status_code # 200) => raised = NoError
    /\ (call.op \in TableBuilds /\ http.status_code = 200 /\ n_failed > 0) =>
          (raised = NoError /\ returned.kind = "DataFrame")

\* C4: when the catalog GET is answered 200 with a document that has no
\* "dataset" field, construction fails with the missing-field error and no
\* dataset_metadata is produced; with the field present that error is not
\* raised.
C4_CatalogShapeFailure ==
    (call.op = "CensusAPICatalog" /\ http.kind = "catalog" /\ http.status_code = 200) =>
        IF data_catalog_json.json.has_dataset
        THEN raised # ShapeError
        ELSE raised = ShapeError /\ dataset_metadata = Unset /\ phase = "failed"

C4_Witness ==
    /\ phase = "failed"
    /\ http.status_code = 200
    /\ ~data_catalog_json.json.has_dataset
    /\ raised = ShapeError
    /\ dataset_metadata = Unset

\* The order the claim C5 gives two input elements a and b at input
\* positions m < n or m > n: a strictly before b.
ModifiedKey(element) ==
    IF Parseable(element.modified) THEN to_datetime(element.modified) ELSE NaT

StablyBefore(a, m, b, n) ==
    LET x == ModifiedKey(a)
        y == ModifiedKey(b)
    IN  \/ ~x.isna /\ y.isna
        \/ ~x.isna /\ ~y.isna /\ x.value > y.value
        \/ x = y /\ m < n

\* C5 (as claimed): for every catalog with a non-empty "dataset" array the
\* table is built, and its rows are the input elements stably sorted by
\* modified descending, missing or unparseable modified last, equal
\* modified in input order.
C5_StablySortedTable ==
    (/\ call.op = "CensusAPICatalog"
     /\ http.status_code = 200
     /\ data_catalog_json.json.has_dataset
     /\ Len(data_catalog_json.json.dataset) > 0) =>
        /\ dataset_metadata # Unset
        /\ LET input == data_catalog_json.json.dataset
               rows == dataset_metadata.rows
           IN  /\ Len(rows) = Len(input)
               /\ \E p \in Orders(DOMAIN input) :
                     /\ \A i \in DOMAIN rows :
                           /\ rows[i].identifier = input[p[i]].identifier
                           /\ rows[i].distribution_accessURL =
                                 input[p[i]].distribution[1].accessURL
                     /\ \A i, j \in DOMAIN rows :
                           i < j => StablyBefore(input[p[i]], p[i], input[p[j]], p[j])

\* C5 (amended): when the table is built, it has exactly one row per input
\* element, each carrying its element's identifier and access URL; a row
\* with a later modified precedes a row with an earlier one, the rows with
\* a missing modified come last, in input order; the order of rows with
\* equal modified is not fixed.  A catalog with an unparseable modified, or
\* with no modified at all, builds no table: construction fails.
C5_SortedTable ==
    /\ phase = "constructed" =>
          LET input == data_catalog_json.json.dataset
              rows == dataset_metadata.rows
          IN  /\ Len(rows) = Len(input)
              /\ Len(rows) > 0
              /\ \E p \in Orders(DOMAIN input) :
                    /\ \A i \in DOMAIN rows :
                          /\ rows[i].identifier = input[p[i]].identifier
                          /\ rows[i].distribution_accessURL =
                                input[p[i]].distribution[1].accessURL
                          /\ rows[i].modified.isna <=> input[p[i]].modified = Missing
                    /\ \A i, j \in DOMAIN rows :
                          i < j =>
                            \/ ~rows[i].modified.isna /\ rows[j].modified.isna
                            \/ /\ ~rows[i].modified.isna /\ ~rows[j].modified.isna
                               /\ rows[i].modified.value >= rows[j].modified.value
                            \/ /\ rows[i].modified.isna /\ rows[j].modified.isna
                               /\ p[i] < p[j]
    /\ (/\ call.op = "CensusAPICatalog"
        /\ http.status_code = 200
        /\ data_catalog_json.json.has_dataset
        /\ \/ \E i \in DOMAIN data_catalog_json.json.dataset :
                 data_catalog_json.json.dataset[i].modified = "sometime"
           \/ \A i \in DOMAIN data_catalog_json.json.dataset :
                 data_catalog_json.json.dataset[i].modified = Missing) =>
          (phase = "failed" /\ raised # NoError /\ dataset_metadata = Unset)

\* A table with two rows of equal modified in the reverse of their input
\* order, before a row without modified.
C5_Witness ==
    /\ phase = "constructed"
    /\ Len(dataset_metadata.rows) = 3
    /\ LET input == data_catalog_json.json.dataset
           rows == dataset_metadata.rows
       IN  /\ rows[1] = json_normalize(input[2])
           /\ rows[2] = json_normalize(input[1])
           /\ rows[3] = json_normalize(input[3])
           /\ rows[1] # rows[2]
           /\ rows[1].modified = rows[2].modified
           /\ ~rows[1].modified.isna
           /\ rows[3].modified.isna

\* C6: get_dataset_source returns a source whose base URL is the access
\* URL of the first row, in table order, with the requested identifier, and
\* fails with an error when no row has it.
C6_FirstMatchOrNotFound ==
    call.op = "get_dataset_source" =>
        LET rows == dataset_metadata.rows
            m == {i \in DOMAIN rows : rows[i].identifier = call.identifier}
        IN  IF m = {}
            THEN raised.type = "IndexError" /\ returned = None
            ELSE LET first == CHOOSE i \in m : \A j \in m : i <= j
                 IN  /\ raised = NoError
                     /\ returned.kind = "CensusDatasetSource"
                     /\ returned.base_api_call = rows[first].distribution_accessURL
                     /\ returned.media_type = call.media_type

C6_Witness ==
    /\ call.op = "get_dataset_source"
    /\ raised = NoError
    /\ \E i, j \in DOMAIN dataset_metadata.rows :
         /\ i < j
         /\ dataset_metadata.rows[i].identifier = call.identifier
         /\ dataset_metadata.rows[j].identifier = call.identifier
         /\ dataset_metadata.rows[i].distribution_accessURL #
              dataset_metadata.rows[j].distribution_accessURL
         /\ \A k \in 1..(i - 1) : dataset_metadata.rows[k].identifier # call.identifier
         /\ returned.base_api_call = dataset_metadata.rows[i].distribution_accessURL

\* The occurrences of labels under the key of the last call, as (dataset,
\* position) pairs, and the scan order of two occurrences.
Occurrences ==
    LET datasets == data_catalog_json.json.dataset
    IN  UNION { { << d, k >> : k \in DOMAIN datasets[d][call.key] } : d \in DOMAIN datasets }

LabelAt(o) == data_catalog_json.json.dataset[o[1]][call.key][o[2]]

ScannedBefore(o, q) == o[1] < q[1] \/ (o[1] = q[1] /\ o[2] < q[2])

FirstSeen(label) ==
    CHOOSE o \in Occurrences :
        /\ LabelAt(o) = label
        /\ \A q \in Occurrences : LabelAt(q) = label => ~ScannedBefore(q, o)

\* C7: get_counts_of_nested_data_elements returns one (label, count) pair
\* per distinct label under the key, the count being the label's number of
\* occurrences over all datasets, ordered by count descending, pairs of
\* equal count in the order their labels were first seen.
C7_LabelCounts ==
    call.op = "get_counts_of_nested_data_elements" =>
        LET items == returned.items IN
        /\ raised = NoError
        /\ \A i, j \in DOMAIN items : i # j => items[i].label # items[j].label
        /\ { items[i].label : i \in DOMAIN items } = { LabelAt(o) : o \in Occurrences }
        /\ \A i \in DOMAIN items :
              items[i].count = Cardinality({o \in Occurrences : LabelAt(o) = items[i].label})
        /\ \A i, j \in DOMAIN items :
              i < j =>
                \/ items[i].count > items[j].count
                \/ /\ items[i].count = items[j].count
                   /\ ScannedBefore(FirstSeen(items[i].label), FirstSeen(items[j].label))

\* Three labels, the most frequent not the first seen, the other two tied.
C7_Witness ==
    /\ call.op = "get_counts_of_nested_data_elements"
    /\ call.key = "keyword"
    /\ Len(returned.items) = 3
    /\ returned.items[1].count = 2
    /\ returned.items[2].count = 1
    /\ returned.items[3].count = 1
    /\ FirstSeen(returned.items[2].label) = << 1, 1 >>
    /\ ScannedBefore(FirstSeen(returned.items[1].label), FirstSeen(returned.items[3].label))

\* C8 (as claimed): the variables table built from a 200 response that
\* lists at least one variable has one row per variable name, the name in
\* the "variable" column, predicateOnly false where the record has none and
\* an empty mapping as values where the record has none, also when no
\* record carries predicateOnly or values.
C8_VariablesTable ==
    (/\ call.op = "variables_df"
     /\ http.status_code = 200
     /\ Len(http.json.variables) > 0) =>
        /\ raised = NoError
        /\ returned.kind = "DataFrame"
        /\ LET m == http.json.variables
               rows == returned.rows
           IN  /\ Len(rows) = Len(m)
               /\ \A i \in DOMAIN rows :
                     /\ rows[i].variable = m[i].variable
                     /\ ~m[i].record.has_predicateOnly => rows[i].predicateOnly = FALSE
                     /\ ~m[i].record.has_values =>
                           rows[i].values = [isna |-> FALSE, v |-> {}]

\* C9 (as claimed): groups_df, answered 200 with a non-empty "groups" list,
\* returns a table with one row per entry of the list.
C9_GroupsTable ==
    (/\ call.op = "groups_df"
     /\ http.status_code = 200
     /\ Len(http.json.groups) > 0) =>
        /\ raised = NoError
        /\ returned = DataFrame(http.json.groups)

\* What a call returns or raises, as a function of the response alone.
Outcome(op, resp) ==
    LET fetched == get_url_response(resp) IN
    CASE op = "get_url_response" -> fetched
      [] op = "variables_df" -> variables_df(fetched.returned)
      [] op = "geographies_df" -> geographies_df(fetched.returned)
      [] op = "groups_df" -> groups_df(fetched.returned)

\* C10: a CensusDatasetSource keeps the two fields its constructor was
\* given, whatever was called on it, and caches nothing: every detail fetch
\* and table access issues a GET of its own (n accesses, n requests) for
\* its own URL, and what it returns or raises is a function of the response
\* to that GET.
C10_StatelessNoCache ==
    /\ source = [base_api_call |-> ctor.base_api_call, media_type |-> ctor.media_type]
    /\ n_requests = n_calls
    /\ call.op \in TableBuilds \cup {"get_url_response"} =>
          /\ http.url = re_sub_html(call.url)
          /\ n_requests >= n_repeat + 1
          /\ [raised |-> raised, returned |-> returned] = Outcome(call.op, http)

\* The same table accessed three times in a row, answered differently.
C10_Witness ==
    /\ call.op = "variables_df"
    /\ n_repeat = 2
    /\ n_calls = 3
    /\ n_requests = 3
    /\ n_failed = 2
    /\ returned.kind = "DataFrame"

====
